---- MODULE Spec2Model ----
(***************************************************************************)
(* Model of the two peak detectors of giovannipollo/peak-detection:        *)
(*   PeakDetector             (src/src/peak.py)               - batch      *)
(*   PeakDetectorSingleSample (src/src/peak_single_sample.py) - streaming  *)
(* Indices are 0-based as in the source; At(s, i) reads s[i].              *)
(* Samples are integers; the half-height test  x > (h + t) / 2  is         *)
(* evaluated exactly as  2 * x > h + t.                                    *)
(***************************************************************************)
EXTENDS Integers, Sequences, FiniteSets, TLC

VARIABLES
    op,               \* the last operation performed
    signal,           \* PeakDetector.signal
    threshold,        \* .threshold of the detector under study
    min_distance,     \* .min_distance
    prominence,       \* .prominence  (None or Some(v))
    width,            \* .width       (None or Some(v))
    result,           \* value returned by PeakDetector.detect_peaks
    buffer_size,      \* PeakDetectorSingleSample.buffer_size
    buffer,           \* .buffer
    buffer_index,     \* .buffer_index
    potential_peaks,  \* .potential_peaks
    confirmed_peaks,  \* contents of the list object bound to .confirmed_peaks
    sample_count,     \* .sample_count
    returned,         \* the reference last returned by add_sample / get_peaks
    samples           \* the samples passed to add_sample so far, in order

vars == <<op, signal, threshold, min_distance, prominence, width, result,
          buffer_size, buffer, buffer_index, potential_peaks, confirmed_peaks,
          sample_count, returned, samples>>

config == <<threshold, min_distance, prominence, width>>
batchVars == <<signal, result>>
streamVars == <<buffer_size, buffer, buffer_index, potential_peaks,
                confirmed_peaks, sample_count, returned, samples>>

----------------------------------------------------------------------------
(* Bounds and input sets *)

MaxLen == 7            \* longest batch signal
MaxSamples == 7        \* most add_sample calls on one streaming detector
MaxBufferSize == 7     \* largest buffer_size

Values == {0, 1, 2}
Thresholds == {-1, 0, 1}
MinDistances == {1, 3}

\* Python's None and a present optional value
None == <<>>
Some(v) == <<v>>
Val(o) == o[1]

Prominences == {None, Some(1)}
Widths == {None, Some(2)}

\* 0-based read of a Python list
At(s, i) == s[i + 1]

Last(s) == s[Len(s)]

SeqMin(s) == CHOOSE m \in {s[k] : k \in 1..Len(s)} : \A k \in 1..Len(s) : m <= s[k]

Max2(a, b) == IF a >= b THEN a ELSE b

\* Python slice s[a:b] for 0 <= a <= b <= len(s)
Slice(s, a, b) == SubSeq(s, a + 1, b)

SignalsUpTo(n) == UNION {[1..k -> Values] : k \in 0..n}

----------------------------------------------------------------------------
(* PeakDetector (batch) *)

\* variant: non-strict comparison against the neighbours
PeakDetector_is_local_max_ge(sig, thr, i) ==
    /\ At(sig, i) >= At(sig, i - 1) + thr
    /\ At(sig, i) >= At(sig, i + 1) + thr

\* the local-maxima test of step 1, for an interior index i
PeakDetector_is_local_max(sig, thr, i) ==
    /\ At(sig, i) > At(sig, i - 1) + thr
    /\ At(sig, i) > At(sig, i + 1) + thr

\* step 1: range(1, len(signal) - 1), appended in increasing order
PeakDetector_candidates(sig, thr) ==
    SelectSeq([k \in 1..(Len(sig) - 2) |-> k],
              LAMBDA i : PeakDetector_is_local_max(sig, thr, i))

\* variant: distance measured from the previous candidate, kept or not
RECURSIVE PeakDetector_min_distance_loop_prev(_, _, _, _)
PeakDetector_min_distance_loop_prev(peaks, md, i, peaks_filtered) ==
    IF i > Len(peaks) THEN peaks_filtered
    ELSE PeakDetector_min_distance_loop_prev(peaks, md, i + 1,
            IF peaks[i] - peaks[i - 1] >= md
            THEN Append(peaks_filtered, peaks[i])
            ELSE peaks_filtered)

\* variant: a close later candidate replaces the last kept one
RECURSIVE PeakDetector_min_distance_loop_latest(_, _, _, _)
PeakDetector_min_distance_loop_latest(peaks, md, i, peaks_filtered) ==
    IF i > Len(peaks) THEN peaks_filtered
    ELSE PeakDetector_min_distance_loop_latest(peaks, md, i + 1,
            IF peaks[i] - Last(peaks_filtered) >= md
            THEN Append(peaks_filtered, peaks[i])
            ELSE [peaks_filtered EXCEPT ![Len(peaks_filtered)] = peaks[i]])

RECURSIVE PeakDetector_min_distance_loop(_, _, _, _)
PeakDetector_min_distance_loop(peaks, md, i, peaks_filtered) ==
    IF i > Len(peaks) THEN peaks_filtered
    ELSE PeakDetector_min_distance_loop(peaks, md, i + 1,
            IF peaks[i] - Last(peaks_filtered) >= md
            THEN Append(peaks_filtered, peaks[i])
            ELSE peaks_filtered)

PeakDetector_enforce_min_distance(peaks, md) ==
    IF Len(peaks) <= 1 THEN peaks
    ELSE PeakDetector_min_distance_loop(peaks, md, 2, <<peaks[1]>>)

RECURSIVE PeakDetector_left_base(_, _)
PeakDetector_left_base(sig, left_base) ==
    IF left_base > 0 /\ At(sig, left_base) <= At(sig, left_base - 1)
    THEN PeakDetector_left_base(sig, left_base - 1)
    ELSE left_base

RECURSIVE PeakDetector_right_base(_, _)
PeakDetector_right_base(sig, right_base) ==
    IF right_base < Len(sig) - 1 /\ At(sig, right_base) <= At(sig, right_base + 1)
    THEN PeakDetector_right_base(sig, right_base + 1)
    ELSE right_base

PeakDetector_calculate_prominence(sig, peak) ==
    LET left_base == PeakDetector_left_base(sig, peak)
        right_base == PeakDetector_right_base(sig, peak)
        left_min == SeqMin(Slice(sig, left_base, peak + 1))
        right_min == SeqMin(Slice(sig, peak, right_base + 1))
        min_height == Max2(left_min, right_min)
    IN  At(sig, peak) - min_height

RECURSIVE PeakDetector_width_left(_, _, _, _)
PeakDetector_width_left(sig, thr, peak, left_idx) ==
    IF left_idx > 0 /\ 2 * At(sig, left_idx) > At(sig, peak) + thr
    THEN PeakDetector_width_left(sig, thr, peak, left_idx - 1)
    ELSE left_idx

RECURSIVE PeakDetector_width_right(_, _, _, _)
PeakDetector_width_right(sig, thr, peak, right_idx) ==
    IF right_idx < Len(sig) - 1 /\ 2 * At(sig, right_idx) > At(sig, peak) + thr
    THEN PeakDetector_width_right(sig, thr, peak, right_idx + 1)
    ELSE right_idx

PeakDetector_calculate_width(sig, thr, peak) ==
    PeakDetector_width_right(sig, thr, peak, peak)
        - PeakDetector_width_left(sig, thr, peak, peak)

\* step 3: does the loop body reach the three appends for this peak?
PeakDetector_passes_filters(sig, thr, prom_cfg, width_cfg, peak) ==
    /\ ~ (prom_cfg # None
            /\ PeakDetector_calculate_prominence(sig, peak) < Val(prom_cfg))
    /\ ~ (width_cfg # None
            /\ PeakDetector_calculate_width(sig, thr, peak) < Val(width_cfg))

PeakDetector_detect_peaks(sig, thr, md, prom_cfg, width_cfg) ==
    LET peaks == PeakDetector_enforce_min_distance(
                     PeakDetector_candidates(sig, thr), md)
        kept == SelectSeq(peaks, LAMBDA p :
                    PeakDetector_passes_filters(sig, thr, prom_cfg, width_cfg, p))
    IN  [peaks |-> peaks,   \* the list bound at step 2; step 3 never rebinds it
         heights |-> [k \in 1..Len(kept) |-> At(sig, kept[k])],
         prominences |-> [k \in 1..Len(kept) |->
                            IF prom_cfg # None
                            THEN Some(PeakDetector_calculate_prominence(sig, kept[k]))
                            ELSE None],
         widths |-> [k \in 1..Len(kept) |->
                            IF width_cfg # None
                            THEN Some(PeakDetector_calculate_width(sig, thr, kept[k]))
                            ELSE None]]

NoResult == [peaks |-> <<>>, heights |-> <<>>, prominences |-> <<>>, widths |-> <<>>]

----------------------------------------------------------------------------
(* PeakDetectorSingleSample (streaming) *)

\* a reference to the list object bound to self.confirmed_peaks
ConfirmedPeaksRef == "self.confirmed_peaks"
NoRef == "no reference"

\* the list a reference denotes
Deref(ref) == IF ref = ConfirmedPeaksRef THEN confirmed_peaks ELSE <<>>

\* variant: the candidate is recorded one position too late
SingleSample_check_potential_peak_pos(buf, bidx, bsize, thr, count, pot) ==
    LET current_index == (bidx - 2) % bsize
        prev_index == (current_index - 1) % bsize
        next_index == (current_index + 1) % bsize
    IN  IF /\ At(buf, current_index) > At(buf, prev_index) + thr
           /\ At(buf, current_index) > At(buf, next_index) + thr
        THEN Append(pot, <<count - 1, At(buf, current_index)>>)
        ELSE pot

SingleSample_check_potential_peak(buf, bidx, bsize, thr, count, pot) ==
    LET current_index == (bidx - 2) % bsize
        prev_index == (current_index - 1) % bsize
        next_index == (current_index + 1) % bsize
    IN  IF /\ At(buf, current_index) > At(buf, prev_index) + thr
           /\ At(buf, current_index) > At(buf, next_index) + thr
        THEN Append(pot, <<count - 2, At(buf, current_index)>>)
        ELSE pot

SingleSample_calculate_prominence(buf, bsize, peak) ==
    LET peak_index == At(peak, 0) % bsize
        left_min == SeqMin(Slice(buf, peak_index, bsize) \o Slice(buf, 0, peak_index))
        right_min == SeqMin(Slice(buf, peak_index, bsize) \o Slice(buf, 0, peak_index))
    IN  At(peak, 1) - Max2(left_min, right_min)

RECURSIVE SingleSample_width_left(_, _, _, _, _, _)
SingleSample_width_left(buf, bsize, thr, peak, peak_index, left) ==
    IF 2 * At(buf, left) > At(peak, 1) + thr
    THEN LET l == (left - 1) % bsize
         IN  IF l = peak_index THEN l
             ELSE SingleSample_width_left(buf, bsize, thr, peak, peak_index, l)
    ELSE left

RECURSIVE SingleSample_width_right(_, _, _, _, _, _)
SingleSample_width_right(buf, bsize, thr, peak, peak_index, right) ==
    IF 2 * At(buf, right) > At(peak, 1) + thr
    THEN LET r == (right + 1) % bsize
         IN  IF r = peak_index THEN r
             ELSE SingleSample_width_right(buf, bsize, thr, peak, peak_index, r)
    ELSE right

SingleSample_calculate_width(buf, bsize, thr, peak) ==
    LET peak_index == At(peak, 0) % bsize
        left == SingleSample_width_left(buf, bsize, thr, peak, peak_index, peak_index)
        right == SingleSample_width_right(buf, bsize, thr, peak, peak_index, peak_index)
    IN  IF right > left THEN right - left ELSE bsize - left + right

\* Python truthiness of an optional number: None and 0 are both false
Truthy(o) == o # None /\ Val(o) # 0

\* variant: the prominence comparison is the wrong way round
SingleSample_check_peak_validity_prom(peak, confirmed, buf, bsize, thr, md, prom_cfg, width_cfg) ==
    /\ ~ (/\ md # 0
          /\ confirmed # <<>>
          /\ At(peak, 0) - At(Last(confirmed), 0) < md)
    /\ ~ (/\ Truthy(prom_cfg)
          /\ SingleSample_calculate_prominence(buf, bsize, peak) > Val(prom_cfg))
    /\ ~ (/\ Truthy(width_cfg)
          /\ SingleSample_calculate_width(buf, bsize, thr, peak) < Val(width_cfg))

SingleSample_check_peak_validity(peak, confirmed, buf, bsize, thr, md, prom_cfg, width_cfg) ==
    /\ ~ (/\ md # 0
          /\ confirmed # <<>>
          /\ At(peak, 0) - At(Last(confirmed), 0) < md)
    /\ ~ (/\ Truthy(prom_cfg)
          /\ SingleSample_calculate_prominence(buf, bsize, peak) < Val(prom_cfg))
    /\ ~ (/\ Truthy(width_cfg)
          /\ SingleSample_calculate_width(buf, bsize, thr, peak) < Val(width_cfg))

\* variant: a candidate must be strictly older than half a window
SingleSample_is_due_older(count, bsize, peak) == count - At(peak, 0) > bsize \div 2

\* variant: the age limit is two windows instead of half a window
SingleSample_is_due_double(count, bsize, peak) == count - At(peak, 0) >= bsize * 2

\* has the candidate aged enough to be resolved?
SingleSample_is_due(count, bsize, peak) == count - At(peak, 0) >= bsize \div 2

\* variant: the peak is inserted at the front of the list
SingleSample_confirm_front(confirmed, peak) == <<peak>> \o confirmed

\* self.confirmed_peaks.append(peak)
SingleSample_confirm(confirmed, peak) == Append(confirmed, peak)

\* the for loop of _process_potential_peaks, from the i-th pending candidate on
RECURSIVE SingleSample_process_loop(_, _, _, _, _, _, _, _, _, _, _)
SingleSample_process_loop(pot, i, new_potential_peaks, confirmed, buf, bsize, thr, md, prom_cfg, width_cfg, count) ==
    IF i > Len(pot)
    THEN [potential_peaks |-> new_potential_peaks, confirmed_peaks |-> confirmed]
    ELSE LET peak == pot[i]
         IN  IF SingleSample_is_due(count, bsize, peak)
             THEN SingleSample_process_loop(pot, i + 1, new_potential_peaks,
                      IF SingleSample_check_peak_validity(peak, confirmed, buf, bsize,
                                                          thr, md, prom_cfg, width_cfg)
                      THEN SingleSample_confirm(confirmed, peak)
                      ELSE confirmed,
                      buf, bsize, thr, md, prom_cfg, width_cfg, count)
             ELSE SingleSample_process_loop(pot, i + 1, Append(new_potential_peaks, peak),
                      confirmed, buf, bsize, thr, md, prom_cfg, width_cfg, count)

\* variant: the confirmed list is rebuilt from scratch on every call
SingleSample_process_potential_peaks_fresh(pot, confirmed, buf, bsize, thr, md, prom_cfg, width_cfg, count) ==
    SingleSample_process_loop(pot, 1, <<>>, <<>>, buf, bsize, thr, md,
                              prom_cfg, width_cfg, count)

SingleSample_process_potential_peaks(pot, confirmed, buf, bsize, thr, md, prom_cfg, width_cfg, count) ==
    SingleSample_process_loop(pot, 1, <<>>, confirmed, buf, bsize, thr, md,
                              prom_cfg, width_cfg, count)

\* variant: candidates are looked for from the second sample on
SingleSample_checks_candidate_early(count) == count >= 2

\* variant: resolution starts one sample after the window has filled
SingleSample_processes_late(count, bsize) == count > bsize

\* the two guards of add_sample
SingleSample_checks_candidate(count) == count >= 3
SingleSample_processes(count, bsize) == count >= bsize

\* variant: the sample is stored after the cursor has moved
SingleSample_write_after(buf, bidx, bsize, sample) == [buf EXCEPT ![((bidx + 1) % bsize) + 1] = sample]

\* self.buffer[self.buffer_index] = sample
SingleSample_write(buf, bidx, bsize, sample) == [buf EXCEPT ![bidx + 1] = sample]

\* self.buffer_index = (self.buffer_index + 1) % self.buffer_size
SingleSample_advance(bidx, bsize) == (bidx + 1) % bsize

\* the detector's fields right after __init__
SingleSample_new(bsize) ==
    [buffer |-> [k \in 1..bsize |-> 0], buffer_index |-> 0, potential_peaks |-> <<>>,
     confirmed_peaks |-> <<>>, sample_count |-> 0]

\* the effect of add_sample(sample) on the detector's fields
SingleSample_add_sample(st, sample, bsize, thr, md, prom_cfg, width_cfg) ==
    LET count == st.sample_count + 1
        buf == SingleSample_write(st.buffer, st.buffer_index, bsize, sample)
        bidx == SingleSample_advance(st.buffer_index, bsize)
        pot == IF SingleSample_checks_candidate(count)
               THEN SingleSample_check_potential_peak(buf, bidx, bsize, thr, count,
                                                      st.potential_peaks)
               ELSE st.potential_peaks
        res == IF SingleSample_processes(count, bsize)
               THEN SingleSample_process_potential_peaks(pot, st.confirmed_peaks,
                        buf, bsize, thr, md, prom_cfg, width_cfg, count)
               ELSE [potential_peaks |-> pot, confirmed_peaks |-> st.confirmed_peaks]
    IN  [buffer |-> buf, buffer_index |-> bidx,
         potential_peaks |-> res.potential_peaks,
         confirmed_peaks |-> res.confirmed_peaks,
         sample_count |-> count]

\* a fresh detector fed the samples ss[k], ss[k+1], ... in order, from fields st
RECURSIVE SingleSample_run_from(_, _, _, _, _, _, _, _)
SingleSample_run_from(ss, k, st, bsize, thr, md, prom_cfg, width_cfg) ==
    IF k > Len(ss) THEN st
    ELSE SingleSample_run_from(ss, k + 1,
             SingleSample_add_sample(st, ss[k], bsize, thr, md, prom_cfg, width_cfg),
             bsize, thr, md, prom_cfg, width_cfg)

SingleSample_run(ss, bsize, thr, md, prom_cfg, width_cfg) ==
    SingleSample_run_from(ss, 1, SingleSample_new(bsize), bsize, thr, md, prom_cfg, width_cfg)

\* the reference add_sample and get_peaks hand back
SingleSample_return_value == ConfirmedPeaksRef

----------------------------------------------------------------------------
(* Operations *)

BatchOps == {"PeakDetector.__init__", "detect_peaks"}
StreamOps == {"PeakDetectorSingleSample.__init__", "add_sample", "get_peaks",
              "caller_mutate"}

\* PeakDetector.detect_peaks()
detect_peaks ==
    /\ op = "PeakDetector.__init__"
    /\ op' = "detect_peaks"
    /\ result' = PeakDetector_detect_peaks(signal, threshold, min_distance,
                                           prominence, width)
    /\ UNCHANGED <<signal, config, streamVars>>

\* PeakDetectorSingleSample.add_sample(sample)
add_sample(sample) ==
    /\ op \in StreamOps
    /\ sample_count < MaxSamples
    /\ LET self == [buffer |-> buffer, buffer_index |-> buffer_index,
                    potential_peaks |-> potential_peaks,
                    confirmed_peaks |-> confirmed_peaks,
                    sample_count |-> sample_count]
       IN  \E next \in {SingleSample_add_sample(self, sample, buffer_size, threshold,
                                                min_distance, prominence, width)} :
               /\ sample_count' = next.sample_count
               /\ buffer' = next.buffer
               /\ buffer_index' = next.buffer_index
               /\ potential_peaks' = next.potential_peaks
               /\ confirmed_peaks' = next.confirmed_peaks
    /\ returned' = SingleSample_return_value
    /\ samples' = Append(samples, sample)
    /\ op' = "add_sample"
    /\ UNCHANGED <<buffer_size, config, batchVars>>

AddSample == \E sample \in Values : add_sample(sample)

\* PeakDetectorSingleSample.get_peaks()
get_peaks ==
    /\ op \in StreamOps
    /\ returned' = SingleSample_return_value
    /\ op' = "get_peaks"
    /\ UNCHANGED <<buffer_size, buffer, buffer_index, potential_peaks,
                   confirmed_peaks, sample_count, samples, config, batchVars>>

\* The caller mutates the list it was handed: returned.pop() or
\* returned.clear().  The store goes to whatever object the reference denotes.
caller_mutate ==
    /\ op \in StreamOps
    /\ returned # NoRef
    /\ Deref(returned) # <<>>
    /\ \E new \in {<<>>, SubSeq(Deref(returned), 1, Len(Deref(returned)) - 1)} :
          confirmed_peaks' = IF returned = ConfirmedPeaksRef THEN new
                             ELSE confirmed_peaks
    /\ op' = "caller_mutate"
    /\ UNCHANGED <<buffer_size, buffer, buffer_index, potential_peaks,
                   sample_count, returned, samples, config, batchVars>>

----------------------------------------------------------------------------
(* Initial states *)

ConfigInit ==
    /\ threshold \in Thresholds
    /\ min_distance \in MinDistances
    /\ prominence \in Prominences
    /\ width \in Widths

\* a PeakDetector just constructed on some signal
InitBatch ==
    /\ op = "PeakDetector.__init__"
    /\ signal \in SignalsUpTo(MaxLen)
    /\ ConfigInit
    /\ result = NoResult
    /\ buffer_size = 1 /\ buffer = <<0>> /\ buffer_index = 0
    /\ potential_peaks = <<>> /\ confirmed_peaks = <<>>
    /\ sample_count = 0 /\ returned = NoRef /\ samples = <<>>

\* a PeakDetectorSingleSample just constructed
StreamInitWith(sizes) ==
    /\ op = "PeakDetectorSingleSample.__init__"
    /\ buffer_size \in sizes
    /\ ConfigInit
    /\ buffer = SingleSample_new(buffer_size).buffer
    /\ buffer_index = SingleSample_new(buffer_size).buffer_index
    /\ potential_peaks = SingleSample_new(buffer_size).potential_peaks
    /\ confirmed_peaks = SingleSample_new(buffer_size).confirmed_peaks
    /\ sample_count = SingleSample_new(buffer_size).sample_count
    /\ returned = NoRef
    /\ samples = <<>>
    /\ signal = <<>> /\ result = NoResult

InitStream == StreamInitWith(1..MaxBufferSize)

Init == InitBatch \/ InitStream

NextBatch == detect_peaks
NextStream == AddSample
Next == detect_peaks \/ AddSample

\* a streaming detector whose caller keeps and mutates the returned list
CallerBufferSizes == {3, 4}
InitCaller == StreamInitWith(CallerBufferSizes)
NextCaller == AddSample \/ get_peaks \/ caller_mutate

\* a streaming detector fed samples of either sign
SignedValues == {-1, 0, 1}
SignedBufferSizes == {3, 4}
AddSampleSigned == \E sample \in SignedValues : add_sample(sample)
InitSigned == StreamInitWith(SignedBufferSizes) /\ threshold >= 0
NextSigned == AddSampleSigned

\* a streaming detector whose window has room for a sample and both neighbours
InitWindowed == StreamInitWith(3..MaxBufferSize)

\* a two-valued stream into a detector with the optional filters off
LiveValues == {0, 1}
LiveBufferSizes == {3, 6, 7}
AddSampleLive == \E sample \in LiveValues : add_sample(sample)
InitLive ==
    /\ StreamInitWith(LiveBufferSizes)
    /\ threshold <= 0 /\ prominence = None /\ width = None
NextLive == AddSampleLive

\* batch detector alone
SpecBatch == InitBatch /\ [][NextBatch]_vars
\* streaming detector driven by add_sample alone
SpecStream == InitStream /\ [][NextStream]_vars
\* streaming detector, non-negative threshold, samples of either sign
SpecSigned == InitSigned /\ [][NextSigned]_vars
\* streaming detector with buffer_size >= 3
SpecWindowed == InitWindowed /\ [][NextStream]_vars
\* a two-valued stream, with add_sample called again and again
SpecLive == InitLive /\ [][NextLive]_vars /\ WF_vars(NextLive)
\* streaming detector and a caller holding the returned list
SpecCaller == InitCaller /\ [][NextCaller]_vars
\* either detector
Spec == Init /\ [][Next]_vars

----------------------------------------------------------------------------
(* Vocabulary of the properties *)

StrictlyIncreasing(s) == \A j, k \in 1..Len(s) : j < k => s[j] < s[k]

IsPrefix(s, t) == Len(s) <= Len(t) /\ \A k \in 1..Len(s) : s[k] = t[k]

Elems(s) == {s[k] : k \in 1..Len(s)}

Positions(ps) == [k \in 1..Len(ps) |-> At(ps[k], 0)]

Detected == op = "detect_peaks"

\* the interior indices passing the two-sided test, stated on the signal
CandidateSet == {i \in 1..(Len(signal) - 2) :
                    /\ signal[i + 1] > signal[i] + threshold
                    /\ signal[i + 1] > signal[i + 2] + threshold}

\* the list a reference denotes once the current step is over
DerefNext(ref) == IF ref = ConfirmedPeaksRef THEN confirmed_peaks' ELSE <<>>

\* the entries appended to the confirmed list by the current step
NewlyConfirmed == {confirmed_peaks'[k] :
                      k \in (Len(confirmed_peaks) + 1)..Len(confirmed_peaks')}

----------------------------------------------------------------------------
(* Batch detector: result shape and filters *)

\* C1: detect_peaks returns heights, prominences and widths of exactly the
\* length of peaks, with heights[k] = signal[peaks[k]] for every k, also
\* when an active prominence or width filter rejects a candidate.
C1_PropertiesAligned ==
    Detected =>
        /\ Len(result.heights) = Len(result.peaks)
        /\ Len(result.prominences) = Len(result.peaks)
        /\ Len(result.widths) = Len(result.peaks)
        /\ \A k \in 1..Len(result.peaks) :
              k <= Len(result.heights)
                  => result.heights[k] = At(signal, result.peaks[k])

\* C2: every returned peak passes the active filters: computed prominence
\* >= config.prominence when set, computed width >= config.width when set.
C2_ReturnedPassFilters ==
    Detected =>
        \A k \in 1..Len(result.peaks) :
            /\ prominence # None =>
                  PeakDetector_calculate_prominence(signal, result.peaks[k])
                      >= Val(prominence)
            /\ width # None =>
                  PeakDetector_calculate_width(signal, threshold, result.peaks[k])
                      >= Val(width)

\* C3: with min_distance = 1 and both optional filters disabled the returned
\* peaks are exactly the interior indices that exceed both neighbours by more
\* than threshold, in increasing order; indices 0 and len-1 are never
\* returned and a signal shorter than 3 gives empty peaks and properties.
C3_ExactlyLocalMaxima ==
    (Detected /\ min_distance = 1 /\ prominence = None /\ width = None) =>
        /\ Elems(result.peaks) = CandidateSet
        /\ StrictlyIncreasing(result.peaks)
        /\ 0 \notin Elems(result.peaks)
        /\ (Len(signal) - 1) \notin Elems(result.peaks)
        /\ Len(signal) < 3 => result = NoResult

C3_Witness ==
    /\ Detected /\ min_distance = 1 /\ prominence = None /\ width = None
    /\ Len(result.peaks) >= 2
    /\ \E i \in 1..(Len(signal) - 2) :
          i \notin Elems(result.peaks) /\ signal[i + 1] = signal[i] + threshold

\* C4: the distance filter is the greedy left-to-right selection: the first
\* candidate is kept and a later candidate is kept iff it lies at least
\* min_distance after the most recently kept one; hence for min_distance >= 1
\* returned peaks are pairwise min_distance apart, and [0,1,0,2,0,1,0] with
\* threshold 0 and min_distance 3 yields [1,5].
C4_GreedyDistanceFilter ==
    Detected =>
        LET R == Elems(result.peaks)
            LastKeptBefore(c) ==
                CHOOSE r \in R : r < c /\ \A q \in R : q < c => q <= r
        IN  /\ R \subseteq CandidateSet
            /\ StrictlyIncreasing(result.peaks)
            /\ \A c \in CandidateSet :
                  IF \A d \in CandidateSet : c <= d
                  THEN c \in R
                  ELSE /\ \E r \in R : r < c
                       /\ c \in R <=> c - LastKeptBefore(c) >= min_distance
            /\ min_distance >= 1 =>
                  \A a, b \in R : a < b => b - a >= min_distance
            /\ (signal = <<0, 1, 0, 2, 0, 1, 0>> /\ threshold = 0
                    /\ min_distance = 3) => result.peaks = <<1, 5>>

C4_Witness ==
    /\ Detected
    /\ signal = <<0, 1, 0, 2, 0, 1, 0>> /\ threshold = 0 /\ min_distance = 3
    /\ result.peaks = <<1, 5>>

\* C5 (as stated): of any two candidates closer than min_distance the
\* earlier one is always returned and the later one never.
C5_EarlierAlwaysKept ==
    Detected =>
        \A a, b \in CandidateSet :
            (a < b /\ b - a < min_distance) =>
                a \in Elems(result.peaks) /\ b \notin Elems(result.peaks)

\* C5 (amended): of any two candidates closer than min_distance, if the
\* earlier one is returned the later one is not, whatever their heights; the
\* earlier one is missing only when it lies closer than min_distance to an
\* earlier returned peak.
C5_EarlierWinsWhenKept ==
    Detected =>
        \A a, b \in CandidateSet :
            (a < b /\ b - a < min_distance) =>
                LET R == Elems(result.peaks)
                IN  /\ a \in R => b \notin R
                    /\ a \notin R => \E r \in R : r < a /\ a - r < min_distance

C5_Witness ==
    /\ Detected
    /\ \E a, b \in CandidateSet :
          /\ a < b /\ b - a < min_distance
          /\ At(signal, b) > At(signal, a)
          /\ a \in Elems(result.peaks) /\ b \notin Elems(result.peaks)

----------------------------------------------------------------------------
(* Streaming detector: the confirmed list *)

\* C6: confirmed peaks are strictly increasing by position for both
\* detectors: the streaming confirmed list after any add_sample calls (no
\* position confirmed twice) and the peaks returned by detect_peaks.
C6_StrictlyIncreasing ==
    /\ StrictlyIncreasing(Positions(confirmed_peaks))
    /\ StrictlyIncreasing(result.peaks)

C6_Witness ==
    /\ Len(confirmed_peaks) >= 3
    /\ min_distance = 1

\* C7: the confirmed list is append-only: across every add_sample step the
\* list before the step is a prefix of the list after it.
C7_AppendOnly ==
    [][sample_count' = sample_count + 1
          => IsPrefix(confirmed_peaks, confirmed_peaks')]_vars

C7_Witness ==
    /\ Len(confirmed_peaks) >= 2
    /\ sample_count > At(Last(confirmed_peaks), 0) + Max2(2, buffer_size \div 2)
    /\ sample_count > buffer_size

\* C8: the list returned by get_peaks / add_sample does not alias detector
\* state: a caller mutating it leaves the detector's confirmed list as it
\* was, and a later add_sample leaves a previously returned list as it was.
C8_ReturnedIsSnapshot ==
    [][/\ op' = "caller_mutate" => confirmed_peaks' = confirmed_peaks
       /\ (op' = "add_sample" /\ returned # NoRef)
              => DerefNext(returned) = Deref(returned)]_vars

\* C9 (as stated): a peak at position p is appended no later than
\* buffer_size // 2 ingestions after the call that makes samples_seen = p + 2.
C9_LagWithinHalfWindow ==
    [][buffer_size >= 3 =>
          \A peak \in NewlyConfirmed :
              sample_count' <= At(peak, 0) + 2 + buffer_size \div 2]_vars

\* C9 (amended): a peak at position p is appended no later than
\* buffer_size // 2 ingestions after the call that makes samples_seen = p + 2,
\* except that a candidate proposed while the window is filling for the first
\* time (p + 2 < buffer_size) is appended by the call that makes
\* samples_seen = buffer_size when that is later.
C9_LagAfterWindowFilled ==
    [][buffer_size >= 3 =>
          \A peak \in NewlyConfirmed :
              \/ sample_count' <= At(peak, 0) + 2 + buffer_size \div 2
              \/ At(peak, 0) + 2 < buffer_size /\ sample_count' = buffer_size]_vars

C9_Witness ==
    /\ buffer_size >= 4
    /\ \E j, k \in 1..Len(confirmed_peaks) :
          /\ At(confirmed_peaks[j], 0) + 2 < buffer_size
          /\ At(confirmed_peaks[k], 0) + 2 > buffer_size
    /\ sample_count = At(Last(confirmed_peaks), 0) + buffer_size \div 2

\* C10: after each of the first two add_sample calls on a fresh detector
\* (any buffer_size >= 1, any samples) the samples are in the window and
\* neither a pending candidate nor a confirmed peak exists.
C10_WarmUp ==
    sample_count \in {1, 2} =>
        /\ potential_peaks = <<>>
        /\ confirmed_peaks = <<>>
        /\ At(buffer, (sample_count - 1) % buffer_size) = Last(samples)
        /\ (sample_count = 2 /\ buffer_size >= 2) => At(buffer, 0) = samples[1]

C10_Witness ==
    /\ sample_count = 2
    /\ samples[1] > samples[2] + threshold
    /\ samples[1] > threshold
    /\ potential_peaks = <<>>

----------------------------------------------------------------------------
(* Filters, window and candidate life cycle *)

\* prominence settings the configured one is compared with
ProminenceLevels == {0, 2}

\* the confirmed list a fresh streaming detector holds after the same samples
\* when only the prominence setting is changed to q
ConfirmedWithProminence(q) ==
    SingleSample_run(samples, buffer_size, threshold, min_distance, Some(q),
                     width).confirmed_peaks

\* the peaks detect_peaks returns on the same signal with prominence q
PeaksWithProminence(q) ==
    PeakDetector_detect_peaks(signal, threshold, min_distance, Some(q), width).peaks

\* C11: for a fixed sample sequence and otherwise identical configuration
\* (threshold >= 0, min_distance >= 1) raising prominence never increases the
\* number of peaks: neither of those detect_peaks returns nor of those in the
\* streaming confirmed list, although a candidate rejected by prominence no
\* longer blocks later close candidates.
C11_ProminenceMonotone ==
    (threshold >= 0 /\ min_distance >= 1 /\ prominence # None) =>
        \A q \in ProminenceLevels :
            /\ op = "add_sample" =>
                  /\ q >= Val(prominence) =>
                        Len(ConfirmedWithProminence(q)) <= Len(confirmed_peaks)
                  /\ q <= Val(prominence) =>
                        Len(ConfirmedWithProminence(q)) >= Len(confirmed_peaks)
            /\ Detected =>
                  /\ q >= Val(prominence) =>
                        Len(PeaksWithProminence(q)) <= Len(result.peaks)
                  /\ q <= Val(prominence) =>
                        Len(PeaksWithProminence(q)) >= Len(result.peaks)

\* a stream where the higher setting rejects a peak and thereby lets a later
\* close candidate through, and still confirms fewer peaks
C11_Witness ==
    /\ op = "add_sample" /\ threshold >= 0 /\ min_distance = 3
    /\ prominence = Some(1)
    /\ Len(ConfirmedWithProminence(2)) < Len(confirmed_peaks)
    /\ \E peak \in Elems(ConfirmedWithProminence(2)) :
          /\ peak \notin Elems(confirmed_peaks)
          /\ \E c \in Elems(confirmed_peaks) :
                At(c, 0) < At(peak, 0) /\ At(peak, 0) - At(c, 0) < min_distance

\* C12: a streaming detector with buffer_size 1 or 2 never reaches the active
\* state: for threshold >= 0 and any samples it never proposes a candidate
\* and its confirmed list stays empty.
C12_SmallBufferInert ==
    (op = "add_sample" /\ buffer_size < 3 /\ threshold >= 0) =>
        /\ potential_peaks = <<>>
        /\ confirmed_peaks = <<>>

\* walking away from the peak while the signal keeps falling or stays level
RECURSIVE DescendLeft(_, _)
DescendLeft(sig, i) ==
    IF i > 0 /\ At(sig, i - 1) <= At(sig, i) THEN DescendLeft(sig, i - 1) ELSE i

RECURSIVE DescendRight(_, _)
DescendRight(sig, i) ==
    IF i < Len(sig) - 1 /\ At(sig, i + 1) <= At(sig, i) THEN DescendRight(sig, i + 1) ELSE i

\* prominence over the bases reached by descending from the peak
DescentProminence(sig, peak) ==
    At(sig, peak) - Max2(SeqMin(Slice(sig, DescendLeft(sig, peak), peak + 1)),
                         SeqMin(Slice(sig, peak, DescendRight(sig, peak) + 1)))

\* C13: batch prominence descends from the peak to a base on each side and is
\* signal[p] - max(min(signal[left_base..p]), min(signal[p..right_base]));
\* so with threshold >= 0 every candidate has prominence > 0.
C13_ProminenceDescends ==
    Detected =>
        \A p \in CandidateSet :
            /\ PeakDetector_calculate_prominence(signal, p)
                  = DescentProminence(signal, p)
            /\ threshold >= 0 => PeakDetector_calculate_prominence(signal, p) > 0

\* candidates that the current step resolves: those leaving the pending queue
\* and those it appends to the confirmed list
ResolvedNow == (Elems(potential_peaks) \ Elems(potential_peaks')) \cup NewlyConfirmed

Age(peak) == sample_count - At(peak, 0)

\* C14: a pending candidate is resolved strictly by age: it leaves the queue
\* only in an add_sample call with samples_seen >= buffer_size and
\* samples_seen - position >= buffer_size // 2, and after every call with
\* samples_seen >= buffer_size no candidate that old is left in the queue.
C14_ResolvedByAge ==
    /\ []((op = "add_sample" /\ sample_count >= buffer_size) =>
              \A peak \in Elems(potential_peaks) : Age(peak) < buffer_size \div 2)
    /\ [][\A peak \in ResolvedNow :
              /\ op' = "add_sample"
              /\ sample_count' >= buffer_size
              /\ sample_count' - At(peak, 0) >= buffer_size \div 2]_vars

\* the window is full, a young candidate waits and an older one was confirmed
C14_Witness ==
    /\ sample_count > buffer_size
    /\ potential_peaks # <<>>
    /\ confirmed_peaks # <<>>
    /\ Age(Last(potential_peaks)) = buffer_size \div 2 - 1

\* C15: after n add_sample calls the write cursor is n mod buffer_size and for
\* every position p with max(0, n - B) <= p < n slot p mod B holds the p-th
\* sample; each ingestion changes no slot but the one under the cursor.
C15_CircularWindow ==
    /\ [](/\ Len(buffer) = buffer_size
          /\ sample_count = Len(samples)
          /\ buffer_index = sample_count % buffer_size
          /\ \A p \in 0..(sample_count - 1) :
                p >= sample_count - buffer_size
                    => At(buffer, p % buffer_size) = At(samples, p))
    /\ [][\A k \in 0..(buffer_size - 1) :
              k # buffer_index => At(buffer', k) = At(buffer, k)]_vars

\* the window has wrapped and holds samples that differ from the overwritten ones
C15_Witness ==
    /\ buffer_size >= 3
    /\ sample_count >= buffer_size + 2
    /\ At(samples, 0) # At(buffer, 0)
    /\ At(samples, 1) # At(buffer, 1)

\* C16: for buffer_size >= 3 and any threshold the pending queue never holds
\* more than buffer_size candidates, also during the first fill of the window.
C16_PendingBounded ==
    buffer_size >= 3 => Len(potential_peaks) <= buffer_size

\* the queue at its fullest: every interior position of a window that is
\* about to fill is pending
C16_Witness ==
    /\ buffer_size >= 6
    /\ sample_count = buffer_size - 1
    /\ Len(potential_peaks) = buffer_size - 3

\* is the slot k of the window, as the current step leaves it, strictly above
\* the half-height of the peak?
AboveHalf(peak, k) == 2 * At(buffer', k) > At(peak, 1) + threshold

\* distance from the peak's slot to the first slot at or below half-height,
\* going in direction dir (-1 left, 1 right); buffer_size if there is none
StopDistance(peak, dir) ==
    LET pi == At(peak, 0) % buffer_size
        ds == {d \in 0..(buffer_size - 1) :
                  ~ AboveHalf(peak, (pi + dir * d) % buffer_size)}
    IN  IF ds = {} THEN buffer_size
        ELSE CHOOSE d \in ds : \A e \in ds : d <= e

\* C17: streaming width is the circular distance between the two stopping
\* points, (right - left) mod buffer_size, and is buffer_size only when a scan
\* has wrapped fully around the window; when the peak's own value is <=
\* half-height both scans stay at the peak and the width is 0, as in batch.
C17_CircularWidth ==
    [][(op' = "add_sample" /\ Truthy(width)) =>
          \A peak \in NewlyConfirmed :
              LET w == SingleSample_calculate_width(buffer', buffer_size,
                                                    threshold, peak)
                  pi == At(peak, 0) % buffer_size
                  dl == StopDistance(peak, -1)
                  dr == StopDistance(peak, 1)
              IN  /\ dl < buffer_size =>
                        w = (((pi + dr) % buffer_size) - ((pi - dl) % buffer_size))
                                % buffer_size
                  /\ w = buffer_size => dl = buffer_size
                  /\ ~ AboveHalf(peak, pi) => w = 0]_vars

PendingAt(pos) == \E k \in 1..Len(potential_peaks) : At(potential_peaks[k], 0) = pos

ConfirmedAt(pos) == \E k \in 1..Len(confirmed_peaks) : At(confirmed_peaks[k], 0) = pos

\* the call that resolves a candidate at pos lies within the modelled run
ResolvableInRun(pos) ==
    Max2(buffer_size, pos + Max2(2, buffer_size \div 2)) <= MaxSamples

\* C18: for buffer_size >= 3, while add_sample keeps being called every
\* proposed candidate is eventually resolved, exactly once: it leaves the
\* queue, is appended to the confirmed list or discarded but never both
\* pending and confirmed, and is never queued again.
C18_EventuallyResolved ==
    /\ \A pos \in 1..(MaxSamples - 2) :
          (PendingAt(pos) /\ ResolvableInRun(pos)) ~> ~ PendingAt(pos)
    /\ [](/\ StrictlyIncreasing(Positions(potential_peaks))
          /\ \A pos \in 0..(MaxSamples - 1) : ~ (PendingAt(pos) /\ ConfirmedAt(pos)))
    /\ [][\A pos \in 0..(MaxSamples - 1) :
              /\ (PendingAt(pos)' /\ ~ PendingAt(pos)) => pos = sample_count' - 2
              /\ (ConfirmedAt(pos)' /\ ~ ConfirmedAt(pos)) =>
                    /\ PendingAt(pos) \/ pos = sample_count' - 2
                    /\ ~ PendingAt(pos)']_vars

\* a candidate that waited in the queue has been confirmed, another discarded
C18_Witness ==
    /\ buffer_size >= 6
    /\ sample_count > buffer_size
    /\ potential_peaks = <<>>
    /\ confirmed_peaks # <<>>
    /\ \E pos \in 1..(sample_count - 2) :
          /\ ~ ConfirmedAt(pos)
          /\ At(samples, pos) > At(samples, pos - 1) + threshold
          /\ At(samples, pos) > At(samples, pos + 1) + threshold

\* C19: whenever a pending candidate (p, v) is checked for validity
\* (buffer_size >= 3) its sample is still in the window: samples_seen - p <=
\* buffer_size and slot p mod buffer_size holds v, the sample ingested at p;
\* also for candidates of the first fill, which wait for samples_seen =
\* buffer_size.
C19_CandidateStillInWindow ==
    [][buffer_size >= 3 =>
          \A peak \in ResolvedNow :
              /\ sample_count' - At(peak, 0) <= buffer_size
              /\ At(buffer', At(peak, 0) % buffer_size) = At(peak, 1)
              /\ At(samples', At(peak, 0)) = At(peak, 1)]_vars

\* a candidate of the first fill, resolved when the window fills, while the
\* slot next to it is about to be overwritten
C19_Witness ==
    /\ buffer_size >= 6
    /\ sample_count = buffer_size
    /\ confirmed_peaks # <<>>
    /\ At(confirmed_peaks[1], 0) = 1
    /\ At(confirmed_peaks[1], 1) = 2

\* what detect_peaks returns on the samples ingested so far, filters off
BatchOnSamples ==
    PeakDetector_detect_peaks(samples, threshold, min_distance, None, None).peaks

\* C20: with prominence and width disabled, the same threshold and
\* min_distance >= 1, after n >= buffer_size >= 3 samples the streaming
\* confirmed peaks are, in order, the indices p returned by detect_peaks on
\* those samples with n - p >= buffer_size // 2, each with value s[p].
C20_StreamingMatchesBatch ==
    (/\ op = "add_sample"
     /\ prominence = None /\ width = None /\ min_distance >= 1
     /\ buffer_size >= 3 /\ sample_count >= buffer_size) =>
        LET old == SelectSeq(BatchOnSamples,
                       LAMBDA p : sample_count - p >= buffer_size \div 2)
        IN  confirmed_peaks = [k \in 1..Len(old) |-> <<old[k], At(samples, old[k])>>]

\* the distance filter has dropped a candidate and a young batch peak is
\* still pending in the stream
C20_Witness ==
    /\ op = "add_sample"
    /\ prominence = None /\ width = None /\ min_distance = 3
    /\ buffer_size >= 6 /\ sample_count > buffer_size
    /\ Len(confirmed_peaks) >= 1
    /\ Len(BatchOnSamples) > Len(confirmed_peaks)
    /\ Cardinality({i \in 1..(Len(samples) - 2) :
                       /\ samples[i + 1] > samples[i] + threshold
                       /\ samples[i + 1] > samples[i + 2] + threshold})
          > Len(BatchOnSamples)

====
